---- MODULE Spec2Model ----
(***************************************************************************)
(* Somali news dataset builder: build_dataset.main driving                 *)
(* scraper_core.collect_from_source, with the checkpoint writer            *)
(* safe_write_csv, the quota planner label_needs and the loader            *)
(* ensure_columns.                                                         *)
(*                                                                         *)
(* Text is a sequence of one-character strings, so that strip, lower,      *)
(* split/join and len are computed as the code computes them.  A missing   *)
(* DataFrame value (NaN) is the one-element sequence <<"NaN">>.            *)
(***************************************************************************)
EXTENDS Integers, Sequences, FiniteSets, TLC

\* ---------------------------------------------------------------- bounds
\* Largest number of data rows of the input CSV.
MaxInputRows == 2
\* Largest number of <a> elements a fetched page carries.
MaxAnchors == 2
\* Largest --target given on the command line.
MaxTarget == 2
\* Number of runs of the program in the re-run specification.
MaxRuns == 2

\* ---------------------------------------------------------------- text
NaN == <<"NaN">>

WHITESPACE == {" "}

UPPER == <<"A","B","C","D","E","F","G","H","I","J","K","L","M",
           "N","O","P","Q","R","S","T","U","V","W","X","Y","Z">>
LOWER == <<"a","b","c","d","e","f","g","h","i","j","k","l","m",
           "n","o","p","q","r","s","t","u","v","w","x","y","z">>

\* str(s): a NaN prints as "nan"
str(s) == IF s = NaN THEN <<"n","a","n">> ELSE s

lower_char(c) ==
    IF \E i \in 1..26 : UPPER[i] = c
    THEN LOWER[CHOOSE i \in 1..26 : UPPER[i] = c]
    ELSE c

\* Character strings.  The string methods below are functions on Text, each
\* computed on the value of its argument.
Text == Seq(STRING)

\* str.lower()
lower[s \in Text] == [i \in 1..Len(s) |-> lower_char(s[i])]

lstrip[s \in Text] ==
    IF s # <<>> /\ Head(s) \in WHITESPACE THEN lstrip[Tail(s)] ELSE s

rstrip[s \in Text] ==
    IF s # <<>> /\ s[Len(s)] \in WHITESPACE
    THEN rstrip[SubSeq(s, 1, Len(s) - 1)]
    ELSE s

\* str.strip()
strip(s) == rstrip[lstrip[s]]

\* str.split(): the maximal runs of non-whitespace characters
split_from[s \in Text, word \in Text, words \in Seq(Text)] ==
    IF s = <<>>
    THEN IF word = <<>> THEN words ELSE Append(words, word)
    ELSE IF Head(s) \in WHITESPACE
         THEN split_from[Tail(s), <<>>,
                         IF word = <<>> THEN words ELSE Append(words, word)]
         ELSE split_from[Tail(s), Append(word, Head(s)), words]

split(s) == split_from[s, <<>>, <<>>]

\* " ".join(words)
join[words \in Seq(Text)] ==
    IF words = <<>> THEN <<>>
    ELSE IF Len(words) = 1 THEN words[1]
    ELSE words[1] \o <<" ">> \o join[Tail(words)]

\* scraper_core.norm_text, mutated: lower-casing forgotten
norm_text_no_lower(s) == strip(join[split(str(s))])

\* scraper_core.norm_text
norm_text(s) == strip(join[split(lower[str(s)])])

\* k in tnorm (substring containment)
contains(s, k) ==
    \E i \in 0..(Len(s) - Len(k)) : SubSeq(s, i + 1, i + Len(k)) = k


\* ---------------------------------------------------------------- configuration
\* scraper_core.ScrapeConfig as build_dataset.main constructs it.  The two
\* loop thresholds are scaled down (checkpoint_every 300 -> 2,
\* stop_after_zero_streak 80 -> 2) so that both are reached within the page
\* bounds; target_per_label is the --target argument, a variable of the run.
ScrapeConfig ==
    [ checkpoint_every       |-> 2,
      stop_after_zero_streak |-> 2,
      min_title_len          |-> 12 ]

cfg == ScrapeConfig

\* build_dataset.main: the columns the loader requires, and those it adds
REQUIRED_COLUMNS == {"text", "label"}
ALL_COLUMNS == {"text", "label", "source", "url"}

\* labels (cells of the label column)
Sports == <<"S">>
Economy == <<"E">>
World == <<"W">>

\* titles
tTrade == <<"T","r","a","d","e"," ","D","e","a","l"," ","U","p">>
tTradeWs == <<"t","r","a","d","e"," "," ","d","e","a","l"," ","u","p">>
tFootball == <<"F","o","o","t","b","a","l","l"," ","C","u","p">>
tBudget == <<"B","u","d","g","e","t"," ","V","o","t","e"," ","2","6">>
tShort == <<"T","r","a","d","e"," ","U","p">>
kwTrade == <<"t","r","a","d","e">>
kwEconomy == <<"e","c","o","n","o","m","y">>
tSigned == <<"N","e","w"," ","T","r","a","d","e"," ","D","e","a","l"," ",
             "S","i","g","n","e","d">>
\* a keyword written with a capital in the configuration
kwTradeCap == <<"T","r","a","d","e">>

\* sources.SOURCES, cut to three descriptors of the same shapes: a category
\* source, a keyword archive with keywords, and a "param"-paginated keyword
\* archive with an empty keyword list (as SomaliWikipedia).
Source(name, label, type, base_url, pagination, start_page, max_pages, keywords) ==
    [ name |-> name, label |-> label, type |-> type, base_url |-> base_url,
      pagination |-> pagination, start_page |-> start_page,
      max_pages |-> max_pages, keywords |-> keywords,
      \* a key collect_from_source does not read (src1.py reads it)
      use_keyword_filter |-> FALSE ]

\* Largest max_pages of a source of the general configuration.
MaxPages == 2

GeneralSources ==
    << Source(<<"K">>, Sports, "wp_category", <<"k">>, "wp", 1, MaxPages,
              <<>>),
       Source(<<"R">>, Economy, "keyword_archive", <<"r","/">>, "wp", 1,
              MaxPages, <<kwEconomy, kwTrade>>),
       Source(<<"W">>, Economy, "keyword_archive", <<"w","?","p","=">>,
              "param", 1, 1, <<>>) >>

\* One category source deep enough for a full zero-yield streak after three
\* productive pages.
StreakSources ==
    << Source(<<"K">>, Sports, "wp_category", <<"k","/","/">>, "wp", 1,
              3 + cfg.stop_after_zero_streak, <<>>) >>

\* A configuration with the descriptors the three above do not show: a category
\* source that carries use_keyword_filter and keywords and starts at page 2, a
\* second source of the same label, a source whose pagination is neither "wp"
\* nor "param", and a source of a later label.
ExtraSources ==
    << [Source(<<"F">>, Economy, "wp_category", <<"f","/","/">>, "wp", 2, 4,
               <<kwTrade>>) EXCEPT !.use_keyword_filter = TRUE],
       Source(<<"W">>, Economy, "keyword_archive", <<"w","?","p","=">>,
              "param", 1, 1, <<>>),
       Source(<<"X">>, Economy, "keyword_archive", <<"x">>, "feed", 1, 1,
              <<>>),
       Source(<<"K">>, Sports, "wp_category", <<"k">>, "wp", 1, 1, <<>>) >>

\* Three one-page sources of one label: a category source, a keyword archive
\* whose keyword is written with a capital, and an archive without keywords.
CapSources ==
    << Source(<<"P">>, Economy, "wp_category", <<"p">>, "wp", 1, 1, <<>>),
       Source(<<"Q">>, Economy, "keyword_archive", <<"q">>, "wp", 1, 1,
              <<kwTradeCap>>),
       Source(<<"W">>, Economy, "keyword_archive", <<"w","?","p","=">>,
              "param", 1, 1, <<>>) >>

\* ---------------------------------------------------------------- addresses
\* str(page): the decimal digits of a non-negative integer
DIGITS == <<"0","1","2","3","4","5","6","7","8","9">>

int_str[n \in Nat] ==
    IF n < 10 THEN <<DIGITS[n + 1]>>
    ELSE int_str[n \div 10] \o <<DIGITS[(n % 10) + 1]>>

\* str.rstrip("/")
rstrip_slash[s \in Text] ==
    IF s # <<>> /\ s[Len(s)] = "/"
    THEN rstrip_slash[SubSeq(s, 1, Len(s) - 1)]
    ELSE s

\* wp_page_url, mutated: the base taken as configured
wp_page_url_no_rstrip(base_url, page) ==
    LET base == base_url \o <<"/">>
    IN  IF page = 1 THEN base
        ELSE base \o <<"p","a","g","e","/">> \o int_str[page] \o <<"/">>

\* scraper_core.wp_page_url
wp_page_url(base_url, page) ==
    LET base == rstrip_slash[base_url] \o <<"/">>
    IN  IF page = 1 THEN base
        ELSE base \o <<"p","a","g","e","/">> \o int_str[page] \o <<"/">>

\* the pagination modes collect_from_source builds an address for
PAGINATION_MODES == {"wp", "param"}

\* if pagination == "wp": wp_page_url(...)  elif "param": f"{base_url}{page}"
page_url(src, page) ==
    IF src.pagination = "wp" THEN wp_page_url(src.base_url, page)
    ELSE src.base_url \o int_str[page]

\* ---------------------------------------------------------------- the web
Anchor(title, href) == [title |-> title, href |-> href]

\* The <a> elements a page can carry, as (get_text(" ", strip=True), href).
Anchors ==
    { Anchor(tTradeWs, <<"/","a">>), Anchor(tFootball, <<"/","b">>),
      Anchor(tBudget, <<"/","c">>), Anchor(tShort, <<"/","d">>) }

RECURSIVE SeqsUpTo(_, _)
SeqsUpTo(S, n) ==
    IF n = 0 THEN {<<>>}
    ELSE LET shorter == SeqsUpTo(S, n - 1)
         IN  shorter \cup {Append(q, x) : q \in shorter, x \in S}

\* The bodies a successful fetch can return: the selected anchors in order.
Bodies == SeqsUpTo(Anchors, MaxAnchors)

\* A web of four titles long enough to be extracted, for a label that is asked
\* for four rows.
WideAnchors ==
    { Anchor(tTradeWs, <<"/","a">>), Anchor(tFootball, <<"/","b">>),
      Anchor(tBudget, <<"/","c">>), Anchor(tSigned, <<"/","e">>) }

WideBodies == SeqsUpTo(WideAnchors, MaxAnchors)

\* scraper_core.extract_links over the selected anchors
RECURSIVE extract_from(_, _, _, _)
extract_from(links, min_len, seen, out) ==
    IF links = <<>> THEN out
    ELSE LET a == Head(links)
             key == <<a.title, a.href>>
         IN  IF a.title = <<>> \/ Len(a.title) < min_len
             THEN extract_from(Tail(links), min_len, seen, out)
             ELSE IF key \in seen
             THEN extract_from(Tail(links), min_len, seen, out)
             ELSE extract_from(Tail(links), min_len, seen \cup {key},
                               Append(out, key))

extract_links(html, min_len) == extract_from(html, min_len, {}, <<>>)

\* ---------------------------------------------------------------- tabular store
Row(text, label, source, url) ==
    [text |-> text, label |-> label, source |-> source, url |-> url]

NoFile == [exists |-> FALSE, complete |-> FALSE, columns |-> {}, rows |-> <<>>]

CsvFile(columns, rows) ==
    [exists |-> TRUE, complete |-> TRUE, columns |-> columns, rows |-> rows]

\* A file whose writer was cut off after the first k rows.
PartialFile(columns, rows, k) ==
    [exists |-> TRUE, complete |-> FALSE, columns |-> columns,
     rows |-> SubSeq(rows, 1, k)]

\* The data rows an input CSV of two columns can carry (cells as written in
\* the file): padded cells, a text that a title of the web normalizes to, a
\* text that is too short.
InputRows ==
    { Row(<<" ">> \o tTrade, <<" ">> \o Sports, <<>>, <<>>),
      Row(tTradeWs, Economy, <<>>, <<>>),
      Row(<<"T","r","a","d","e">>, Sports, <<>>, <<>>) }

\* The data rows of the input CSVs that have all four columns: one with an
\* empty text cell.
InputRowsMeta ==
    { Row(tTradeWs, Economy, <<>>, <<"/","a">>),
      Row(<<>>, Economy, <<"K">>, <<>>) }

\* DataFrame.to_csv: one cell per column, a NaN written as the empty cell
to_csv_cell(v) == IF v = NaN THEN <<>> ELSE v

to_csv_rows(df) ==
    [i \in 1..Len(df) |->
        Row(to_csv_cell(df[i].text), to_csv_cell(df[i].label),
            to_csv_cell(df[i].source), to_csv_cell(df[i].url))]

\* pandas.read_csv: an empty cell is read as NaN; a column the file does not
\* have is absent (kept here as NaN until ensure_columns fills it)
read_csv_cell(columns, col, v) ==
    IF col \notin columns \/ v = <<>> THEN NaN ELSE v

read_csv(file) ==
    [i \in 1..Len(file.rows) |->
        Row(read_csv_cell(file.columns, "text", file.rows[i].text),
            read_csv_cell(file.columns, "label", file.rows[i].label),
            read_csv_cell(file.columns, "source", file.rows[i].source),
            read_csv_cell(file.columns, "url", file.rows[i].url))]

\* ensure_columns, mutated: the length filter taken from min_title_len
ensure_columns_min_title_len(df, columns) ==
    LET NotNa(r) == r.text # NaN /\ r.label # NaN
        dropped == SelectSeq(df, NotNa)
        stripped == [i \in 1..Len(dropped) |->
                        [dropped[i] EXCEPT !.text = strip(str(@)),
                                           !.label = strip(str(@))]]
        LongEnough(r) == Len(r.text) > cfg.min_title_len
        kept == SelectSeq(stripped, LongEnough)
    IN  [i \in 1..Len(kept) |->
            [kept[i] EXCEPT
                !.source = IF "source" \notin columns THEN <<>> ELSE @,
                !.url = IF "url" \notin columns THEN <<>> ELSE @]]

\* scraper_core.ensure_columns (its raise is the guard of LoadError)
ensure_columns(df, columns) ==
    LET NotNa(r) == r.text # NaN /\ r.label # NaN
        dropped == SelectSeq(df, NotNa)
        stripped == [i \in 1..Len(dropped) |->
                        [dropped[i] EXCEPT !.text = strip(str(@)),
                                           !.label = strip(str(@))]]
        LongEnough(r) == Len(r.text) > 5
        kept == SelectSeq(stripped, LongEnough)
    IN  [i \in 1..Len(kept) |->
            [kept[i] EXCEPT
                !.source = IF "source" \notin columns THEN <<>> ELSE @,
                !.url = IF "url" \notin columns THEN <<>> ELSE @]]

\* df[label_col].value_counts().to_dict()
value_counts(df) ==
    [l \in {df[i].label : i \in 1..Len(df)} |->
        Cardinality({i \in 1..Len(df) : df[i].label = l})]

max(a, b) == IF a >= b THEN a ELSE b

\* label_needs, mutated: the counts taken over the text column
label_needs_wrong_column(df, target, labels) ==
    LET counts == [t \in {df[i].text : i \in 1..Len(df)} |->
                      Cardinality({i \in 1..Len(df) : df[i].text = t})]
        get(l) == IF l \in DOMAIN counts THEN counts[l] ELSE 0
    IN  [l \in {labels[i] : i \in 1..Len(labels)} |-> max(0, target - get(l))]

\* label_needs, mutated: the floor at zero forgotten
label_needs_no_floor(df, target, labels) ==
    LET counts == value_counts(df)
        get(l) == IF l \in DOMAIN counts THEN counts[l] ELSE 0
    IN  [l \in {labels[i] : i \in 1..Len(labels)} |-> target - get(l)]

\* scraper_core.label_needs
label_needs(df, target, labels) ==
    LET counts == value_counts(df)
        get(l) == IF l \in DOMAIN counts THEN counts[l] ELSE 0
    IN  [l \in {labels[i] : i \in 1..Len(labels)} |-> max(0, target - get(l))]

\* build_existing_norm, mutated: the texts taken as they are
build_existing_norm_raw(df) == {df[i].text : i \in 1..Len(df)}

\* build_dataset.build_existing_norm
build_existing_norm(df) == {norm_text(df[i].text) : i \in 1..Len(df)}

\* the final clean-up, mutated: duplicates taken by raw text
drop_duplicates_raw(df) ==
    LET First(i) == \A j \in 1..(i - 1) : df[j].text # df[i].text
        RECURSIVE keep(_)
        keep(i) == IF i > Len(df) THEN <<>>
                   ELSE IF First(i) THEN <<df[i]>> \o keep(i + 1)
                   ELSE keep(i + 1)
    IN  keep(1)

\* the final clean-up, mutated: keep="last"
drop_duplicates_keep_last(df) ==
    LET Last(i) ==
            \A j \in (i + 1)..Len(df) :
                norm_text(df[j].text) # norm_text(df[i].text)
        RECURSIVE keep(_)
        keep(i) == IF i > Len(df) THEN <<>>
                   ELSE IF Last(i) THEN <<df[i]>> \o keep(i + 1)
                   ELSE keep(i + 1)
    IN  keep(1)

\* build_dataset.main: df["_norm"] = norm_text(text);
\* drop_duplicates(subset=["_norm"]) keeps the first row of each group
drop_duplicates(df) ==
    LET First(i) ==
            \A j \in 1..(i - 1) : norm_text(df[j].text) # norm_text(df[i].text)
        RECURSIVE keep(_)
        keep(i) == IF i > Len(df) THEN <<>>
                   ELSE IF First(i) THEN <<df[i]>> \o keep(i + 1)
                   ELSE keep(i + 1)
    IN  keep(1)


\* ---------------------------------------------------------------- state
VARIABLES
    in_file,        \* the CSV at --in
    labels,         \* --labels, split on commas
    target,         \* --target
    sources,        \* sources.SOURCES
    web,            \* the bodies the sites can answer a request with
    fs,             \* the files at --out and at --out + ".tmp"
    pc,             \* where the single thread of control stands
    df,             \* main: the dataset
    need_map,       \* main: label -> rows needed, computed once after loading
    existing_norm,  \* main: the normalized-text set
    li,             \* main: index of the label being processed
    added_rows,     \* main: rows returned by the sources of the label so far
    remaining,      \* main: rows still needed for the label
    si,             \* main: index into the candidates of the label
    need,           \* collect_from_source: its need argument
    rows,           \* collect_from_source: rows admitted by this invocation
    zero_streak,    \* collect_from_source: consecutive pages with no addition
    page,           \* collect_from_source: the loop variable
    items,          \* collect_from_source: items of the page not yet looked at
    added,          \* collect_from_source: rows admitted from this page
    w_df,           \* safe_write_csv: its df argument
    w_ret,          \* safe_write_csv: where its caller continues
    \* history (read by no action's guard)
    run,            \* number of the run (1 for the first)
    df0,            \* the dataset as loaded by this run
    admitted,       \* every row admitted in this run, in order
    since_boundary, \* rows admitted since the last label-boundary checkpoint
    pending,        \* rows admitted since the last completed safe_write_csv
    rejected,       \* normalized titles the keyword filter rejected in this run
    ckpts,          \* contents of the checkpoints completely written so far
    last_fetch,     \* page and outcome of this invocation's latest fetch
    fetched_labels, \* labels for which a page was requested in this run
    unmet,          \* indexes of the labels left with remaining > 0
    yields,         \* per page of this invocation: rows added, -1 for no response
    all_fail,       \* no fetch of this run got a response
    unslept,        \* the run's latest fetch got a response, no maybe_sleep since
    fetches         \* number of requests this invocation has issued

inputs == <<in_file, labels, target, sources, web>>
orch == <<df, need_map, li, added_rows, remaining, si>>
local == <<need, rows, zero_streak, page, items, added>>
writer == <<w_df, w_ret>>
hist_run == <<run, df0, unmet>>
hist_fetch == <<last_fetch, fetched_labels, yields, all_fail, unslept, fetches>>
hist_rows == <<admitted, since_boundary, pending, rejected>>

vars == <<inputs, fs, pc, orch, existing_norm, local, writer,
          hist_run, hist_fetch, hist_rows, ckpts>>

\* safe_write_csv: the destination, and the temporary path beside it
out_path == "out.csv"

\* safe_write_csv, mutated: to_csv straight onto the destination
tmp_path_is_out == out_path

\* safe_write_csv: tmp_path = out_path + ".tmp"
tmp_path == "out.csv.tmp"

Paths == {out_path, "out.csv.tmp"}

NoFetch == [page |-> 0, outcome |-> "none", url |-> <<>>]

\* --labels values: two labels, a repeated label, a label without sources
LabelLists ==
    { <<Economy, Sports>>, <<Sports, Sports>>, <<World, Sports>> }

InputFiles ==
    {CsvFile(REQUIRED_COLUMNS, r) : r \in SeqsUpTo(InputRows, MaxInputRows)}
    \cup {CsvFile(ALL_COLUMNS, r) : r \in SeqsUpTo(InputRowsMeta, 1)}
    \cup {CsvFile({"text"}, <<>>)}

\* The state in which main() is entered.
Entry ==
    /\ pc = "load"
    /\ fs = [p \in Paths |-> NoFile]
    /\ df = <<>> /\ need_map = <<>> /\ existing_norm = {}
    /\ li = 0 /\ added_rows = <<>> /\ remaining = 0 /\ si = 0
    /\ need = 0 /\ rows = <<>> /\ zero_streak = 0 /\ page = 0
    /\ items = <<>> /\ added = 0
    /\ w_df = <<>> /\ w_ret = "none"
    /\ run = 1 /\ df0 = <<>> /\ admitted = <<>> /\ since_boundary = 0
    /\ pending = 0 /\ rejected = {}
    /\ ckpts = {} /\ last_fetch = NoFetch /\ fetched_labels = {}
    /\ unmet = {} /\ yields = <<>> /\ all_fail = TRUE
    /\ unslept = FALSE /\ fetches = 0

\* Any small input, label list and target over the three sources.
GeneralInit ==
    /\ in_file \in InputFiles
    /\ labels \in LabelLists
    /\ target \in 1..MaxTarget
    /\ sources = GeneralSources
    /\ web = Bodies
    /\ Entry

\* An empty dataset and one deep source that is asked for more rows than
\* three pages can give.
StreakInit ==
    /\ in_file = CsvFile(REQUIRED_COLUMNS, <<>>)
    /\ labels = <<Sports>>
    /\ target = 4
    /\ sources = StreakSources
    /\ web = Bodies
    /\ Entry

\* An empty dataset and the sources of ExtraSources, asked for three rows of
\* each label.
ExtraInit ==
    /\ in_file = CsvFile(REQUIRED_COLUMNS, <<>>)
    /\ labels = <<Economy, Sports>>
    /\ target = 3
    /\ sources = ExtraSources
    /\ web = Bodies
    /\ Entry

\* An empty dataset, the sources of CapSources on the wide web, and one label
\* asked for four rows: two sources can each admit checkpoint_every rows.
CapInit ==
    /\ in_file = CsvFile(REQUIRED_COLUMNS, <<>>)
    /\ labels = <<Economy>>
    /\ target = 2 * cfg.checkpoint_every
    /\ sources = CapSources
    /\ web = WideBodies
    /\ Entry

Init == GeneralInit \/ StreakInit \/ ExtraInit \/ CapInit

\* ---------------------------------------------------------------- main
\* the label loop, mutated: the list walked from its end
label_reversed == labels[Len(labels) + 1 - li]

\* for label in labels
label == labels[li]

\* candidates, mutated: the sources of every label
candidates_any_label == sources

\* candidates = [s for s in SOURCES if s["label"] == label]
candidates ==
    LET IsFor(s) == s.label = label
    IN  SelectSeq(sources, IsFor)

source == candidates[si]

\* if need <= 0: continue, mutated: only a negative need skips the label
skip_label_negative(n) == n < 0

\* need = need_map.get(label, 0); if need <= 0: continue
skip_label(n) == n <= 0

\* df = pd.read_csv(in_path); ensure_columns raises on a missing column
LoadError ==
    /\ pc = "load"
    /\ ~(REQUIRED_COLUMNS \subseteq in_file.columns)
    /\ pc' = "crashed"
    /\ UNCHANGED <<inputs, fs, orch, existing_norm, local, writer,
                   hist_run, hist_fetch, hist_rows, ckpts>>

\* read_csv, ensure_columns, label_needs, build_existing_norm
Load ==
    /\ pc = "load"
    /\ REQUIRED_COLUMNS \subseteq in_file.columns
    /\ df' = ensure_columns(read_csv(in_file), in_file.columns)
    /\ need_map' = label_needs(df', target, labels)
    /\ existing_norm' = build_existing_norm(df')
    /\ li' = 1
    /\ df0' = df'
    /\ pc' = "label"
    /\ UNCHANGED <<inputs, fs, added_rows, remaining, si, local, writer,
                   run, unmet, hist_fetch, hist_rows, ckpts>>

\* for label in labels: need <= 0 -> continue
SkipLabel ==
    /\ pc = "label"
    /\ li <= Len(labels)
    /\ skip_label(need_map[label])
    /\ li' = li + 1
    /\ UNCHANGED <<inputs, fs, pc, df, need_map, added_rows, remaining, si,
                   existing_norm, local, writer,
                   hist_run, hist_fetch, hist_rows, ckpts>>

\* if not candidates: continue
NoSources ==
    /\ pc = "label"
    /\ li <= Len(labels)
    /\ ~ skip_label(need_map[label])
    /\ candidates = <<>>
    /\ li' = li + 1
    /\ unmet' = unmet \cup {li}
    /\ UNCHANGED <<inputs, fs, pc, df, need_map, added_rows, remaining, si,
                   existing_norm, local, writer,
                   run, df0, hist_fetch, hist_rows, ckpts>>

\* added_rows = []; remaining = need
StartLabel ==
    /\ pc = "label"
    /\ li <= Len(labels)
    /\ ~ skip_label(need_map[label])
    /\ candidates # <<>>
    /\ added_rows' = <<>>
    /\ remaining' = need_map[label]
    /\ si' = 1
    /\ pc' = "source"
    /\ UNCHANGED <<inputs, fs, df, need_map, li, existing_norm, local, writer,
                   hist_run, hist_fetch, hist_rows, ckpts>>

\* for src in candidates: if remaining <= 0: break  (or the list is used up)
SourcesDone ==
    /\ pc = "source"
    /\ (si > Len(candidates) \/ remaining <= 0)
    /\ pc' = "merge"
    /\ UNCHANGED <<inputs, fs, orch, existing_norm, local, writer,
                   hist_run, hist_fetch, hist_rows, ckpts>>

\* collect_from_source(source=src, need=remaining, ...): its locals
StartSource ==
    /\ pc = "source"
    /\ si <= Len(candidates)
    /\ remaining > 0
    /\ need' = remaining
    /\ rows' = <<>>
    /\ zero_streak' = 0
    /\ page' = source.start_page
    /\ items' = <<>>
    /\ added' = 0
    /\ yields' = <<>>
    /\ last_fetch' = NoFetch
    /\ fetches' = 0
    /\ pc' = "page"
    /\ UNCHANGED <<inputs, fs, orch, existing_norm, writer,
                   hist_run, fetched_labels, all_fail, unslept, hist_rows,
                   ckpts>>


\* ---------------------------------------------------------------- collect_from_source
\* for page in range(start_page, max_pages + 1): if len(rows) >= need: break
InLoop ==
    /\ pc = "page"
    /\ page <= source.max_pages
    /\ Len(rows) < need

\* the for loop is used up, or len(rows) >= need at its head
LoopExit ==
    /\ pc = "page"
    /\ (page > source.max_pages \/ Len(rows) >= need)
    /\ pc' = "return"
    /\ UNCHANGED <<inputs, fs, orch, existing_norm, local, writer,
                   hist_run, hist_fetch, hist_rows, ckpts>>

\* else: raise ValueError(f"Unknown pagination mode: {pagination}"); nothing
\* up to the top of the program catches it
PaginationError ==
    /\ InLoop
    /\ source.pagination \notin PAGINATION_MODES
    /\ pc' = "crashed"
    /\ UNCHANGED <<inputs, fs, orch, existing_norm, local, writer,
                   hist_run, hist_fetch, hist_rows, ckpts>>

\* the address is built: r = request_page(url, ...) is issued
Requesting ==
    /\ InLoop
    /\ source.pagination \in PAGINATION_MODES

Fetched(outcome) ==
    /\ last_fetch' = [page |-> page, outcome |-> outcome,
                      url |-> page_url(source, page)]
    /\ fetched_labels' = fetched_labels \cup {label}
    /\ all_fail' = (all_fail /\ outcome = "fail")
    /\ unslept' = (outcome # "fail")
    /\ fetches' = fetches + 1

\* the request error branch, mutated: counted as a page without additions
request_error_streak_counts(streak) == streak + 1

\* if r is None: continue  -- the zero-yield counter after it
request_error_streak(streak) == streak

\* r = request_page(...) is None: print, continue
RequestError ==
    /\ Requesting
    /\ Fetched("fail")
    /\ yields' = Append(yields, -1)
    /\ zero_streak' = request_error_streak(zero_streak)
    /\ page' = page + 1
    /\ UNCHANGED <<inputs, fs, pc, orch, existing_norm,
                   need, rows, items, added, writer,
                   hist_run, hist_rows, ckpts>>

\* the stop branches, mutated: the rows of the source given up
stop_rows_dropped(r) == <<>>

\* r.status_code != 200 / not items: break, rows kept for the return
stop_rows(r) == r

\* r.status_code != 200: print, break
HttpStop ==
    /\ Requesting
    /\ Fetched("http")
    /\ rows' = stop_rows(rows)
    /\ pc' = "return"
    /\ UNCHANGED <<inputs, fs, orch, existing_norm,
                   need, zero_streak, page, items, added, writer,
                   hist_run, yields, hist_rows, ckpts>>

\* items = extract_links(...); if not items: print, break
EmptyPage ==
    /\ Requesting
    /\ \E html \in web : extract_links(html, cfg.min_title_len) = <<>>
    /\ Fetched("empty")
    /\ rows' = stop_rows(rows)
    /\ pc' = "return"
    /\ UNCHANGED <<inputs, fs, orch, existing_norm,
                   need, zero_streak, page, items, added, writer,
                   hist_run, yields, hist_rows, ckpts>>

\* items = extract_links(...), not empty; added = 0
ItemsPage ==
    /\ Requesting
    /\ \E html \in web :
          /\ extract_links(html, cfg.min_title_len) # <<>>
          /\ items' = extract_links(html, cfg.min_title_len)
    /\ Fetched("items")
    /\ added' = 0
    /\ pc' = "item"
    /\ UNCHANGED <<inputs, fs, orch, existing_norm,
                   need, rows, zero_streak, page, writer,
                   hist_run, yields, hist_rows, ckpts>>

title == items[1][1]
href == items[1][2]
tnorm == norm_text(title)

\* the keyword filter, mutated: all() in the place of any()
off_topic_unless_all(src, t) ==
    /\ src.type = "keyword_archive"
    /\ src.keywords # <<>>
    /\ ~ \A i \in 1..Len(src.keywords) : contains(t, src.keywords[i])

\* if src_type == "keyword_archive":
\*     if keywords and not any(k in tnorm for k in keywords): continue
off_topic(src, t) ==
    /\ src.type = "keyword_archive"
    /\ src.keywords # <<>>
    /\ ~ \E i \in 1..Len(src.keywords) : contains(t, src.keywords[i])

\* where the item loop goes after an item that was not admitted
AfterSkip ==
    IF Tail(items) = <<>>
    THEN pc' = "page_end" /\ items' = <<>>
    ELSE pc' = "item" /\ items' = Tail(items)

\* if tnorm in existing_norm: continue
SkipDuplicate ==
    /\ pc = "item"
    /\ tnorm \in existing_norm
    /\ AfterSkip
    /\ UNCHANGED <<inputs, fs, orch, existing_norm,
                   need, rows, zero_streak, page, added, writer,
                   hist_run, hist_fetch, hist_rows, ckpts>>

\* the keyword filter's continue, mutated: the title put into the set first
seen_after_off_topic_added(seen, t) == seen \cup {t}

\* the keyword filter's continue stands before existing_norm.add(tnorm)
seen_after_off_topic(seen, t) == seen

\* the keyword filter rejects the item: continue
SkipOffTopic ==
    /\ pc = "item"
    /\ tnorm \notin existing_norm
    /\ off_topic(source, tnorm)
    /\ AfterSkip
    /\ rejected' = rejected \cup {tnorm}
    /\ existing_norm' = seen_after_off_topic(existing_norm, tnorm)
    /\ UNCHANGED <<inputs, fs, orch,
                   need, rows, zero_streak, page, added, writer,
                   hist_run, hist_fetch, admitted, since_boundary, pending,
                   ckpts>>

\* tmp = pd.concat([df_base, pd.DataFrame(rows)]), mutated: df_base left out
checkpoint_frame_rows_only(df_base, r) == r

\* tmp = pd.concat([df_base, pd.DataFrame(rows)], ignore_index=True)
checkpoint_frame(df_base, r) == df_base \o r

\* the break of the item loop, mutated: the check after an admission left out
need_reached_off(n, k) == FALSE

\* if len(rows) >= need: break  (after an admission)
need_reached(n, k) == n >= k

\* existing_norm.add; rows.append; added += 1;
\* if len(rows) % checkpoint_every == 0: safe_write_csv(tmp, out_path);
\* if len(rows) >= need: break
AdmitItem ==
    /\ pc = "item"
    /\ tnorm \notin existing_norm
    /\ ~ off_topic(source, tnorm)
    /\ existing_norm' = existing_norm \cup {tnorm}
    /\ rows' = Append(rows, Row(title, source.label, source.name, href))
    /\ added' = added + 1
    /\ admitted' = Append(admitted, Row(title, source.label, source.name, href))
    /\ since_boundary' = since_boundary + 1
    /\ pending' = pending + 1
    /\ LET break == need_reached(Len(rows'), need) \/ Tail(items) = <<>>
           next == IF break THEN "page_end" ELSE "item"
       IN  /\ items' = IF break THEN <<>> ELSE Tail(items)
           /\ IF Len(rows') % cfg.checkpoint_every = 0
              THEN /\ w_df' = checkpoint_frame(df, rows')
                   /\ w_ret' = next
                   /\ pc' = "to_csv"
              ELSE /\ pc' = next
                   /\ UNCHANGED writer
    /\ UNCHANGED <<inputs, fs, orch, need, zero_streak, page,
                   hist_run, hist_fetch, rejected, ckpts>>

RECURSIVE sum_positive(_)
sum_positive(q) ==
    IF q = <<>> THEN 0
    ELSE (IF Head(q) > 0 THEN Head(q) ELSE 0) + sum_positive(Tail(q))

\* rows of this invocation that earlier pages did not give: those of this page
page_yield == Len(rows) - sum_positive(yields)

\* the counter after a page, mutated: never reset
next_zero_streak_no_reset(n, streak) == IF n = 0 THEN streak + 1 ELSE streak

\* if added == 0: zero_streak += 1  else: zero_streak = 0
next_zero_streak(n, streak) == IF n = 0 THEN streak + 1 ELSE 0

\* zero_streak >= cfg.stop_after_zero_streak: print, break
ZeroStreakStop ==
    /\ pc = "page_end"
    /\ next_zero_streak(added, zero_streak) >= cfg.stop_after_zero_streak
    /\ zero_streak' = next_zero_streak(added, zero_streak)
    /\ yields' = Append(yields, page_yield)
    /\ pc' = "return"
    /\ UNCHANGED <<inputs, fs, orch, existing_norm,
                   need, rows, page, items, added, writer,
                   hist_run, last_fetch, fetched_labels, all_fail,
                   unslept, fetches, hist_rows, ckpts>>

\* maybe_sleep(cfg), then the next page
SleepAndContinue ==
    /\ pc = "page_end"
    /\ next_zero_streak(added, zero_streak) < cfg.stop_after_zero_streak
    /\ zero_streak' = next_zero_streak(added, zero_streak)
    /\ yields' = Append(yields, page_yield)
    /\ unslept' = FALSE
    /\ page' = page + 1
    /\ pc' = "page"
    /\ UNCHANGED <<inputs, fs, orch, existing_norm,
                   need, rows, items, added, writer,
                   hist_run, last_fetch, fetched_labels, all_fail,
                   fetches, hist_rows, ckpts>>

\* return rows (the frame of collect_from_source is gone);
\* added_rows.extend(new_rows); remaining -= len(new_rows)
ReturnRows ==
    /\ pc = "return"
    /\ added_rows' = added_rows \o rows
    /\ remaining' = remaining - Len(rows)
    /\ si' = si + 1
    /\ need' = 0 /\ rows' = <<>> /\ zero_streak' = 0 /\ page' = 0
    /\ items' = <<>> /\ added' = 0
    /\ last_fetch' = NoFetch
    /\ yields' = <<>>
    /\ fetches' = 0
    /\ pc' = "source"
    /\ UNCHANGED <<inputs, fs, df, need_map, li, existing_norm, writer,
                   hist_run, fetched_labels, all_fail, unslept, hist_rows,
                   ckpts>>

\* ---------------------------------------------------------------- label end, run end
\* the frame written at the label boundary, mutated: the new rows left out
merged_frame_without_rows(base, new_rows) == base

\* df = pd.concat([df, pd.DataFrame(added_rows)], ignore_index=True)
merged_frame(base, new_rows) == base \o new_rows

\* if added_rows: df = concat; safe_write_csv(df, out_path)
MergeRows ==
    /\ pc = "merge"
    /\ added_rows # <<>>
    /\ df' = merged_frame(df, added_rows)
    /\ w_df' = df'
    /\ w_ret' = "label_end"
    /\ pc' = "to_csv"
    /\ UNCHANGED <<inputs, fs, need_map, li, added_rows, remaining, si,
                   existing_norm, local,
                   hist_run, hist_fetch, hist_rows, ckpts>>

\* added_rows is empty: nothing is merged, nothing is written
NothingToMerge ==
    /\ pc = "merge"
    /\ added_rows = <<>>
    /\ pc' = "label_end"
    /\ UNCHANGED <<inputs, fs, orch, existing_norm, local, writer,
                   hist_run, hist_fetch, hist_rows, ckpts>>

\* if remaining > 0: print the warning; the next label
LabelEnd ==
    /\ pc = "label_end"
    /\ unmet' = IF remaining > 0 THEN unmet \cup {li} ELSE unmet
    /\ li' = li + 1
    /\ pc' = "label"
    /\ UNCHANGED <<inputs, fs, df, need_map, added_rows, remaining, si,
                   existing_norm, local, writer,
                   run, df0, hist_fetch, hist_rows, ckpts>>

\* df["_norm"] = ...; df = df.drop_duplicates(subset=["_norm"])...;
\* safe_write_csv(df, out_path)
FinalCleanup ==
    /\ pc = "label"
    /\ li > Len(labels)
    /\ df' = drop_duplicates(df)
    /\ w_df' = df'
    /\ w_ret' = "done"
    /\ pc' = "to_csv"
    /\ UNCHANGED <<inputs, fs, need_map, li, added_rows, remaining, si,
                   existing_norm, local,
                   hist_run, hist_fetch, hist_rows, ckpts>>

\* ---------------------------------------------------------------- safe_write_csv
\* df.to_csv(tmp_path) under way: the file is open and part of it written
ToCsvPartial ==
    /\ pc = "to_csv"
    /\ \E k \in 0..max(0, Len(w_df) - 1) :
          fs' = [fs EXCEPT ![tmp_path] =
                    PartialFile(ALL_COLUMNS, to_csv_rows(w_df), k)]
    /\ pc' = "to_csv_end"
    /\ UNCHANGED <<inputs, orch, existing_norm, local, writer,
                   hist_run, hist_fetch, hist_rows, ckpts>>

\* df.to_csv(tmp_path) returns: the whole content is in the file
ToCsvDone ==
    /\ pc = "to_csv_end"
    /\ fs' = [fs EXCEPT ![tmp_path] = CsvFile(ALL_COLUMNS, to_csv_rows(w_df))]
    /\ ckpts' = ckpts \cup {to_csv_rows(w_df)}
    /\ pc' = "replace"
    /\ UNCHANGED <<inputs, orch, existing_norm, local, writer,
                   hist_run, hist_fetch, hist_rows>>

\* os.replace(src, dst): dst becomes the file src was, src is gone
os_replace(files, src, dst) ==
    IF src = dst THEN files
    ELSE [files EXCEPT ![dst] = files[src], ![src] = NoFile]

\* os.replace(tmp_path, out_path), and back to the caller
Replace ==
    /\ pc = "replace"
    /\ fs' = os_replace(fs, tmp_path, out_path)
    /\ since_boundary' = IF w_ret = "label_end" THEN 0 ELSE since_boundary
    /\ pending' = 0
    /\ pc' = w_ret
    /\ w_df' = <<>> /\ w_ret' = "none"
    /\ UNCHANGED <<inputs, orch, existing_norm, local,
                   hist_run, hist_fetch, admitted, rejected, ckpts>>

\* ---------------------------------------------------------------- the environment
Running == pc \notin {"done", "crashed", "interrupted"}

\* KeyboardInterrupt (or the process killed) between any two steps
Interrupt ==
    /\ Running
    /\ pc' = "interrupted"
    /\ UNCHANGED <<inputs, fs, orch, existing_norm, local, writer,
                   hist_run, hist_fetch, hist_rows, ckpts>>

\* The operator runs the program again: --in is the file the last run left
\* at --out, with the same --out, --labels, --target and sources.
Rerun ==
    /\ pc = "done"
    /\ run < MaxRuns
    /\ fs[out_path].exists
    /\ in_file' = fs[out_path]
    /\ run' = run + 1
    /\ pc' = "load"
    /\ df' = <<>> /\ need_map' = <<>> /\ existing_norm' = {}
    /\ li' = 0 /\ added_rows' = <<>> /\ remaining' = 0 /\ si' = 0
    /\ need' = 0 /\ rows' = <<>> /\ zero_streak' = 0 /\ page' = 0
    /\ items' = <<>> /\ added' = 0
    /\ w_df' = <<>> /\ w_ret' = "none"
    /\ df0' = <<>> /\ admitted' = <<>> /\ since_boundary' = 0
    /\ pending' = 0 /\ rejected' = {}
    /\ ckpts' = {fs[out_path].rows}
    /\ last_fetch' = NoFetch /\ fetched_labels' = {}
    /\ unmet' = {} /\ yields' = <<>> /\ all_fail' = TRUE
    /\ unslept' = FALSE /\ fetches' = 0
    /\ UNCHANGED <<labels, target, sources, web, fs>>

\* ---------------------------------------------------------------- specifications
Step ==
    \/ LoadError \/ Load
    \/ SkipLabel \/ NoSources \/ StartLabel
    \/ SourcesDone \/ StartSource
    \/ LoopExit \/ PaginationError \/ RequestError \/ HttpStop \/ EmptyPage \/ ItemsPage
    \/ SkipDuplicate \/ SkipOffTopic \/ AdmitItem
    \/ ZeroStreakStop \/ SleepAndContinue \/ ReturnRows
    \/ MergeRows \/ NothingToMerge \/ LabelEnd \/ FinalCleanup
    \/ ToCsvPartial \/ ToCsvDone \/ Replace

Next == Step \/ Interrupt

\* One run of the program, which may be interrupted at any point.
Spec == Init /\ [][Next]_vars

NextRerun == Step \/ Rerun

\* The program run to completion, then run again on its own output.
SpecRerun == Init /\ [][NextRerun]_vars

\* One run that nothing interrupts: the single thread always takes its next
\* step.
FairSpec == Init /\ [][Step]_vars /\ WF_vars(Step)


\* ---------------------------------------------------------------- properties
out_file == fs[out_path]

Range(q) == {q[i] : i \in 1..Len(q)}

\* number of rows of q that carry label l
count_label(q, l) == Cardinality({i \in 1..Len(q) : q[i].label = l})

\* no two rows of q have equal normalized texts
norm_unique(q) ==
    \A i, j \in 1..Len(q) :
        i # j => norm_text(q[i].text) # norm_text(q[j].text)

\* C1: when a run has completed, the file its final write left at the
\* destination is complete and no two of its rows have equal normalized texts,
\* whatever the input (duplicates included) and the page outcomes were.
FinalOutputUnique ==
    pc = "done" =>
        /\ out_file.exists /\ out_file.complete
        /\ norm_unique(out_file.rows)

\* a completed run whose input had two rows of equal normalized text and
\* which admitted rows of its own
FinalOutputUniqueWitness ==
    /\ pc = "done"
    /\ ~ norm_unique(df0)
    /\ admitted # <<>>
    /\ Len(out_file.rows) > 1

\* C2: in every state, the run interrupted or not, the destination is
\* absent or holds the complete content of a checkpoint that was completely
\* written (an earlier one or the one being committed); never a part of one.
CheckpointAtomic ==
    out_file.exists =>
        /\ out_file.complete
        /\ out_file.rows \in ckpts

\* interrupted while the temporary file holds part of a checkpoint and the
\* destination still holds the complete, shorter, earlier one
CheckpointAtomicWitness ==
    /\ pc = "interrupted"
    /\ fs[tmp_path].exists /\ ~ fs[tmp_path].complete
    /\ out_file.exists /\ out_file.rows # <<>>
    /\ fs[tmp_path].rows # <<>>
    /\ Len(w_df) > Len(out_file.rows)

\* rows admitted in this run that the destination file does not hold
lost_rows ==
    {i \in 1..Len(admitted) :
        ~ (out_file.exists /\ to_csv_rows(<<admitted[i]>>)[1] \in Range(out_file.rows))}

\* C3: in every state (each is a point where the run can be interrupted) the
\* admitted rows missing from the destination file number at most
\* checkpoint_every plus the rows admitted since the last label-boundary
\* checkpoint.
LossBounded ==
    Cardinality(lost_rows) <= cfg.checkpoint_every + since_boundary

\* interrupted in a second label with some admitted rows on disk and others,
\* admitted since the label boundary, not
LossBoundedWitness ==
    /\ pc = "interrupted"
    /\ li = 2
    /\ Cardinality(lost_rows) > 0
    /\ Cardinality(lost_rows) < Len(admitted)
    /\ since_boundary > 0


\* main is past read_csv, ensure_columns and label_needs
loaded == li > 0

\* the requested labels that need no row: the loaded dataset has target or more
zero_need_labels ==
    IF ~ loaded THEN {}
    ELSE {l \in Range(labels) : count_label(df0, l) >= target}

\* C4 as stated: for a requested label of zero initial need no page is ever
\* requested, and the final output has as many rows of that label as the
\* loaded dataset.
ZeroNeedCountUnchanged ==
    \A l \in zero_need_labels :
        /\ l \notin fetched_labels
        /\ pc = "done" => count_label(out_file.rows, l) = count_label(df0, l)

\* C4 as amended: for a requested label of zero initial need no page is ever
\* requested, and the final output has as many rows of that label as the
\* loaded dataset has once its rows whose normalized text repeats that of an
\* earlier row are removed (so as many as loaded, when no text repeats).
ZeroNeedCountAfterDedup ==
    \A l \in zero_need_labels :
        /\ l \notin fetched_labels
        /\ pc = "done" =>
              /\ count_label(out_file.rows, l) = count_label(drop_duplicates(df0), l)
              /\ norm_unique(df0) =>
                    count_label(out_file.rows, l) = count_label(df0, l)

\* a completed run that crawled for another label, while a label of zero need
\* lost a duplicate row to the final clean-up
ZeroNeedCountAfterDedupWitness ==
    /\ pc = "done"
    /\ fetched_labels # {}
    /\ \E l \in zero_need_labels :
          /\ count_label(out_file.rows, l) > 0
          /\ count_label(out_file.rows, l) < count_label(df0, l)

RECURSIVE sum_needs(_)
sum_needs(ls) ==
    IF ls = {} THEN 0
    ELSE LET l == CHOOSE x \in ls : TRUE
         IN  (IF target > count_label(df0, l) THEN target - count_label(df0, l) ELSE 0)
             + sum_needs(ls \ {l})

\* the rows the claim promises at completion
quota_met ==
    /\ \A l \in Range(labels) :
          count_label(df0, l) <= target => count_label(out_file.rows, l) = target
    /\ Len(out_file.rows) = Len(df0) + sum_needs(Range(labels))

\* C6: when the input has no two rows of equal normalized text and the
\* sources supplied every requested label (no label was left with unmet
\* need), then at completion every requested label that started at or below
\* the target has exactly target rows, and the total is the initial count
\* plus the sum of the initial needs.
QuotaReached ==
    (pc = "done" /\ norm_unique(df0) /\ unmet = {}) => quota_met

\* the same, for a --labels list that names no label twice
QuotaReachedDistinctLabels ==
    (/\ pc = "done" /\ norm_unique(df0) /\ unmet = {}
     /\ \A i, j \in 1..Len(labels) : i # j => labels[i] # labels[j])
    => quota_met

\* a completed run over distinct labels that filled two labels
QuotaReachedDistinctLabelsWitness ==
    /\ pc = "done" /\ norm_unique(df0) /\ unmet = {}
    /\ labels = <<Economy, Sports>>
    /\ count_label(admitted, Economy) > 0
    /\ count_label(admitted, Sports) > 0

\* C7: label_needs gives every requested label max(0, target - count), a
\* label absent from the dataset counting 0, so no need is negative; and the
\* orchestrator's remaining counter is never negative.
NeedsNonNegative ==
    /\ loaded =>
          /\ DOMAIN need_map = Range(labels)
          /\ \A l \in Range(labels) :
                /\ need_map[l] >= 0
                /\ need_map[l] =
                      IF target > count_label(df0, l)
                      THEN target - count_label(df0, l) ELSE 0
    /\ remaining >= 0

\* a label holds more rows than the target while the sources of another label
\* have brought its remaining need down to zero
NeedsNonNegativeWitness ==
    /\ pc = "source"
    /\ si > 1
    /\ remaining = 0
    /\ \E l \in Range(labels) : count_label(df0, l) > target
    /\ \E l \in Range(labels) : count_label(df0, l) = 0


zeros(n) == [i \in 1..n |-> 0]

\* the step that ends a fetched page which gave at least one extracted item
page_done == Len(yields') = Len(yields) + 1 /\ yields'[Len(yields')] >= 0

\* the pages of the invocation so far: one admitted row on each of the first
\* three, then none on stop_after_zero_streak pages in a row
streak_scenario ==
    /\ yields = <<1, 1, 1>> \o zeros(cfg.stop_after_zero_streak)
    /\ need > 3
    /\ source.start_page = 1
    /\ source.max_pages >= 3 + cfg.stop_after_zero_streak

StreakInv ==
    /\ zero_streak \in 0..cfg.stop_after_zero_streak
    /\ pc \in {"page", "item", "page_end"} =>
          zero_streak < cfg.stop_after_zero_streak
    /\ streak_scenario =>
          /\ pc \in {"return", "interrupted"}
          /\ page = 3 + cfg.stop_after_zero_streak
          /\ Len(rows) = 3
          /\ zero_streak = cfg.stop_after_zero_streak

StreakStep ==
    /\ (pc = "source" /\ pc' = "page") => zero_streak' = 0
    /\ page_done =>
          /\ yields'[Len(yields')] = 0 => zero_streak' = zero_streak + 1
          /\ yields'[Len(yields')] > 0 => zero_streak' = 0
          /\ pc' = "return" <=> zero_streak' = cfg.stop_after_zero_streak
          /\ pc' # "return" => pc' = "page" /\ page' = page + 1

\* C8: within one source invocation the zero-yield counter starts at 0, goes
\* up by exactly 1 on each fetched page that gave extracted items but admitted
\* none, goes back to 0 on each page that admitted one, and the source stops
\* on exactly the page that brings it to stop_after_zero_streak; a source that
\* admits one row on each of pages 1-3 and then none on that many pages in a
\* row stops on page 3 + stop_after_zero_streak with exactly 3 rows.
ZeroStreakPolicy == [](StreakInv) /\ [][StreakStep]_vars

\* the source stopped by the streak after three productive pages
ZeroStreakPolicyWitness ==
    /\ streak_scenario
    /\ pc = "return"

\* the step on which a page request gets no response
fail_step == Len(yields') = Len(yields) + 1 /\ yields'[Len(yields')] = -1

TransportFailureStep ==
    /\ fail_step =>
          /\ zero_streak' = zero_streak
          /\ rows' = rows
          /\ existing_norm' = existing_norm
          /\ fs' = fs
          /\ added_rows' = added_rows /\ df' = df
          /\ li' = li /\ si' = si
          /\ pc' = "page"
          /\ page' = page + 1
    /\ (pc = "page" /\ last_fetch.outcome = "fail") =>
          \/ pc' = "interrupted"
          \/ /\ last_fetch' # last_fetch
             /\ last_fetch'.page = last_fetch.page + 1
          \/ /\ pc' = "return"
             /\ page > source.max_pages
             /\ last_fetch' = last_fetch

\* C9: a page request that gets no response leaves the zero-yield counter,
\* the rows of the source, the normalized-text set and the files as they
\* were, does not stop the source, and what the source does next is request
\* the next page index, or stop because that index is past max_pages.
TransportFailureFrame == [][TransportFailureStep]_vars

\* a source holding a row and a zero-yield page, right after a page request
\* that got no response
TransportFailureFrameWitness ==
    /\ pc = "page"
    /\ last_fetch.outcome = "fail"
    /\ rows # <<>>
    /\ zero_streak > 0
    /\ page <= source.max_pages

\* the step on which a response is not 200, or carries no item
stop_step == last_fetch' # last_fetch /\ last_fetch'.outcome \in {"http", "empty"}

SourceStopStep ==
    /\ stop_step =>
          /\ pc' = "return"
          /\ rows' = rows
          /\ UNCHANGED <<df, added_rows, remaining, li, si, existing_norm, fs>>
    /\ pc = "return" =>
          /\ added_rows' = added_rows \o rows
          /\ remaining' = remaining - Len(rows)
          /\ si' = si + 1 /\ li' = li
          /\ last_fetch' = NoFetch
          /\ pc' = "source"
    /\ (pc = "source" /\ si <= Len(candidates) /\ remaining > 0) =>
          /\ pc' = "page"
          /\ page' = source.start_page
          /\ li' = li /\ si' = si
    /\ pc = "label_end" => li' = li + 1 /\ pc' = "label"

\* every row admitted in the run is in the final output
AdmittedPersisted ==
    pc = "done" =>
        \A i \in 1..Len(admitted) :
            to_csv_rows(<<admitted[i]>>)[1] \in Range(out_file.rows)

\* C10: a response that is not 200, or a page without items, stops only the
\* source: the invocation requests no further page and returns the rows it
\* had admitted, which are merged; the next source of the label is started
\* while need remains, the later labels follow, and the run, when nothing
\* interrupts it, reaches its final write with every admitted row in it, also
\* when a label is left with unmet need.
SourceLocalStop ==
    /\ [][SourceStopStep]_vars
    /\ [](AdmittedPersisted)
    /\ ((last_fetch.outcome \in {"http", "empty"}) ~> (pc = "done"))

\* a source stopped by a response that is not 200 while it holds a row, the
\* need is not met and another source of the label is left
SourceLocalStopWitness ==
    /\ pc = "return"
    /\ last_fetch.outcome = "http"
    /\ rows # <<>>
    /\ Len(rows) < need
    /\ si < Len(candidates)
    /\ li < Len(labels)


\* ---------------------------------------------------------------- C11
\* the page loop stands before the request of a source whose pagination is
\* neither "wp" nor "param"
scheme_error ==
    /\ pc = "page"
    /\ page <= source.max_pages
    /\ Len(rows) < need
    /\ source.pagination \notin {"wp", "param"}

\* the program's own step from there (not the interruption of the run)
scheme_error_step == scheme_error /\ pc' # pc /\ pc' # "interrupted"

\* C11: a source whose pagination is neither offset-path nor query-param fails
\* alone: its invocation ends and returns to the orchestrator, which goes on
\* with the remaining sources and labels; the rows admitted for the label, the
\* dataset and the files are left as they are.
UnsupportedSchemeSourceLocal ==
    [][scheme_error_step =>
          /\ pc' = "return"
          /\ UNCHANGED <<rows, added_rows, df, fs>>]_vars


\* ---------------------------------------------------------------- C12
\* an invocation of collect_from_source is under way (need is its argument)
in_call == need > 0

\* a page request is answered, or fails, on this step
fetch_step == last_fetch' # last_fetch /\ last_fetch'.outcome # "none"

\* what a step does once the invocation holds need rows: nothing is admitted,
\* nothing enters the seen set, no page is requested; the rows are handed over
NeedReachedStep ==
    (in_call /\ Len(rows) >= need) =>
        /\ existing_norm' = existing_norm
        /\ admitted' = admitted
        /\ rows' = rows \/ (pc = "return" /\ added_rows' = added_rows \o rows)
        /\ ~ fetch_step

\* the pages requested lie between start_page and max_pages
PageRangeStep ==
    fetch_step =>
        /\ source.start_page <= last_fetch'.page
        /\ last_fetch'.page <= source.max_pages

\* C12: an invocation asked for need rows never holds (so never returns) more
\* than need rows; once it holds need rows no further item is admitted or put
\* into the seen set and no further page is requested; no page above the
\* source's max_pages or below its start_page is requested.
NeedAndPagesBounded ==
    /\ [](in_call => Len(rows) <= need)
    /\ [][NeedReachedStep /\ PageRangeStep]_vars

\* a source that starts at page 2 filled its need before its last page
NeedAndPagesBoundedWitness ==
    /\ pc = "return"
    /\ in_call
    /\ Len(rows) = need
    /\ source.start_page > 1
    /\ last_fetch.page < source.max_pages


\* ---------------------------------------------------------------- C13
\* the item loop decides the candidate at the head of items on this step
item_step == pc = "item" /\ items' # items

\* the candidate is appended to the rows of the invocation
admits == rows' = Append(rows, Row(title, source.label, source.name, href))

\* k occurs in t as a run of consecutive characters
is_substring(k, t) ==
    \E i \in 0..Len(t) : \E j \in i..Len(t) : SubSeq(t, i + 1, j) = k

\* the keyword list is empty or one of the keywords occurs in t
on_topic(src, t) ==
    \/ src.keywords = <<>>
    \/ \E k \in Range(src.keywords) : is_substring(k, t)

TopicFilterStep ==
    (item_step /\ norm_text(title) \notin existing_norm) =>
        /\ admits \/ rows' = rows
        /\ admits <=> (source.type = "keyword_archive"
                          => on_topic(source, norm_text(title)))

\* C13: a candidate that is not a duplicate is admitted by a keyword-archive
\* source if and only if the keyword list is empty or its normalized title
\* contains a keyword as a substring, and by any other source always (with
\* keywords economy, trade: "trade  deal up" admitted, "Football Cup" not).
TopicFilter == [][TopicFilterStep]_vars

\* a keyword archive with keywords admitted a row and now stands before a
\* fresh candidate that holds none of its keywords
TopicFilterWitness ==
    /\ pc = "item"
    /\ source.type = "keyword_archive"
    /\ Len(source.keywords) = 2
    /\ rows # <<>>
    /\ norm_text(title) \notin existing_norm
    /\ ~ on_topic(source, norm_text(title))


\* ---------------------------------------------------------------- C14
\* the candidate at the head of items holds no keyword of a source that is not
\* a keyword archive but carries use_keyword_filter and a keyword list
forced_off_topic ==
    /\ source.type # "keyword_archive"
    /\ source.use_keyword_filter
    /\ source.keywords # <<>>
    /\ ~ on_topic(source, norm_text(title))

\* C14: a source that is not a keyword archive but carries the
\* force-keyword-filter flag and a non-empty keyword list is filtered like a
\* keyword archive: a candidate whose normalized title holds none of the
\* keywords is not admitted.
ForcedKeywordFilter ==
    [][(item_step /\ forced_off_topic) => (rows' = rows /\ admitted' = admitted)]_vars


\* ---------------------------------------------------------------- C15
\* the normalized texts of the rows of q
norms(q) == {norm_text(q[i].text) : i \in 1..Len(q)}

\* the rows the destination file holds
written == IF out_file.exists THEN out_file.rows ELSE <<>>

\* C15: in every state the seen set holds the normalized text of every row of
\* the loaded dataset, of every row admitted so far, and so of every row of
\* the dataset and of the output file; and no step takes an element out of it.
NormSetCoversAndGrows ==
    /\ [](/\ norms(df0) \subseteq existing_norm
          /\ norms(admitted) \subseteq existing_norm
          /\ norms(df) \subseteq existing_norm
          /\ norms(written) \subseteq existing_norm)
    /\ [][existing_norm \subseteq existing_norm']_vars

\* a completed run that loaded a row and admitted another
NormSetCoversAndGrowsWitness ==
    /\ pc = "done"
    /\ df0 # <<>>
    /\ admitted # <<>>
    /\ Cardinality(existing_norm) >= 2


\* ---------------------------------------------------------------- C16
\* c is base without its trailing separators
is_core(c, base) ==
    \E k \in 0..Len(base) :
        /\ c = SubSeq(base, 1, k)
        /\ k = 0 \/ base[k] # "/"
        /\ \A j \in (k + 1)..Len(base) : base[j] = "/"

\* the number a string of decimal digits denotes
RECURSIVE decimal_value(_)
decimal_value(d) ==
    IF d = <<>> THEN 0
    ELSE 10 * decimal_value(SubSeq(d, 1, Len(d) - 1))
         + (CHOOSE v \in 0..9 : DIGITS[v + 1] = d[Len(d)])

\* d is the decimal numeral of n
is_numeral(d, n) ==
    /\ d # <<>>
    /\ \A i \in 1..Len(d) : \E v \in 0..9 : DIGITS[v + 1] = d[i]
    /\ Len(d) > 1 => d[1] # "0"
    /\ decimal_value(d) = n

\* url is pre, then the numeral of n, then post
is_numbered(url, pre, n, post) ==
    /\ Len(url) > Len(pre) + Len(post)
    /\ SubSeq(url, 1, Len(pre)) = pre
    /\ SubSeq(url, Len(url) - Len(post) + 1, Len(url)) = post
    /\ is_numeral(SubSeq(url, Len(pre) + 1, Len(url) - Len(post)), n)

\* the address the claim gives page n of source src
is_page_address(url, src, n) ==
    IF src.pagination = "wp"
    THEN \E k \in 0..Len(src.base_url) :
            LET c == SubSeq(src.base_url, 1, k)
            IN  /\ is_core(c, src.base_url)
                /\ IF n = 1 THEN url = c \o <<"/">>
                   ELSE is_numbered(url, c \o <<"/","p","a","g","e","/">>,
                                    n, <<"/">>)
    ELSE is_numbered(url, src.base_url, n, <<>>)

\* C16: the address requested for page N of an offset-path ("wp") source is,
\* for N = 1, the base with exactly one trailing separator whatever number of
\* them the configured base ends with, and for N > 1 that address followed by
\* page/N/; for a query-param source it is the base followed by N.
PageAddressing ==
    last_fetch.outcome # "none" =>
        is_page_address(last_fetch.url, source, last_fetch.page)

\* a page after the first of a source whose base ends with two separators
PageAddressingWitness ==
    /\ last_fetch.outcome # "none"
    /\ last_fetch.page > 1
    /\ source.pagination = "wp"
    /\ Len(source.base_url) > 2
    /\ source.base_url[Len(source.base_url)] = "/"
    /\ source.base_url[Len(source.base_url) - 1] = "/"


\* ---------------------------------------------------------------- C17
\* C17: whenever the rows admitted since the last checkpoint write number
\* checkpoint_every, a checkpoint is written before another row is admitted,
\* also when those rows come from several successive sources of one label: the
\* rows not yet followed by a write never number more than checkpoint_every.
IntervalCheckpoint == pending <= cfg.checkpoint_every


\* ---------------------------------------------------------------- C18
\* the first page request of a source invocation is made on this step
first_fetch_step == fetch_step /\ last_fetch.outcome = "none"

\* every row admitted so far is in the destination file
admitted_written ==
    Range(to_csv_rows(admitted)) \subseteq Range(written)

\* the run is over and its last write was the de-duplicated dataset
final_written ==
    /\ out_file.exists /\ out_file.complete
    /\ out_file.rows = to_csv_rows(df)
    /\ norm_unique(df)

\* C18: when a source that contributed a row has finished, and when a label
\* that contributed a row has finished, a checkpoint holding those rows is
\* written before the next source, or the next label, makes its first
\* request; and the run ends with one more checkpoint, written after the final
\* de-duplication.
BoundaryCheckpoint ==
    /\ [](pc = "done" => final_written)
    /\ [][first_fetch_step => admitted_written]_vars

\* the same with the boundaries of the labels alone: a label's first request
\* finds the rows of every earlier label in the file
LabelBoundaryCheckpoint ==
    /\ [](pc = "done" => final_written)
    /\ [][(first_fetch_step /\ si = 1) => admitted_written]_vars


\* ---------------------------------------------------------------- C19
\* r carries the label and the name of the source s
produced_by(r, s) == r.label = s.label /\ r.source = s.name

\* C19: every row admitted in the run carries the label and the name of the
\* source that produced it; a source is invoked only while the orchestrator
\* processes the label of that source; the rows of the dataset and of the
\* output are loaded rows, label unchanged, or admitted rows.
LabelProvenance ==
    /\ \A r \in Range(admitted) : \E s \in Range(sources) : produced_by(r, s)
    /\ in_call =>
          /\ source.label = labels[li]
          /\ \A r \in Range(rows) : produced_by(r, source)
    /\ Range(df) \subseteq Range(df0) \cup Range(admitted)
    /\ Range(written) \subseteq Range(to_csv_rows(df0 \o admitted))

\* a completed run that kept a loaded row and admitted rows of two labels
LabelProvenanceWitness ==
    /\ pc = "done"
    /\ df0 # <<>>
    /\ \E r \in Range(df0) : r \in Range(df)
    /\ \E q, r \in Range(admitted) : q.label # r.label


\* ---------------------------------------------------------------- C20
\* sources[j] is the k-th source of label l in the configured order
is_nth_source(j, l, k) ==
    /\ sources[j].label = l
    /\ Cardinality({i \in 1..(j - 1) : sources[i].label = l}) = k - 1

\* the position in the label list never goes back and moves only at loading
\* and between labels; within a label the position in its sources never goes back
PositionStep ==
    /\ li' >= li
    /\ pc \notin {"load", "label", "label_end"} => li' = li
    /\ pc # "label" => si' >= si

\* a request is for a page of the si-th source of the li-th label, made while
\* that label still needs rows
FetchPositionStep ==
    fetch_step =>
        /\ li \in 1..Len(labels)
        /\ \E j \in 1..Len(sources) :
              /\ is_nth_source(j, labels[li], si)
              /\ last_fetch'.url = page_url(sources[j], last_fetch'.page)
        /\ remaining > 0
        /\ need = remaining /\ Len(rows) < need

\* C20: labels are processed in the configured order and the sources of a
\* label in their configured order, one at a time: every request is made for
\* the current source of the current label, the positions never go back (so
\* every request for a label precedes those for a later label, and a source
\* makes its first request after the earlier ones have stopped), and a
\* request is made only while the remaining need of the label is positive.
SequentialOrder == [][PositionStep /\ FetchPositionStep]_vars

\* the second label is being fetched after the second source of the first
\* label admitted a row
SequentialOrderWitness ==
    /\ li = 2
    /\ last_fetch.outcome # "none"
    /\ Cardinality(fetched_labels) = 2
    /\ \E r \in Range(admitted) : r.source = <<"W">>


\* ---------------------------------------------------------------- C21
\* C21: between two consecutive page requests of a run of which the earlier
\* got a response, maybe_sleep is called: a request is never issued while the
\* latest request of the run was answered and no delay has followed it; also
\* when the earlier request was the last of one source and the later is the
\* first of the next source.
PolitenessDelay == [][fetch_step => ~ unslept]_vars

\* the same for two requests of one invocation only
PolitenessDelayWithinSource ==
    [][(fetch_step /\ last_fetch.outcome # "none") => ~ unslept]_vars


\* ---------------------------------------------------------------- C22
\* what deciding a candidate does: a duplicate is turned away before the
\* keyword filter sees it (it is not counted as rejected by the filter); a
\* candidate that is not admitted leaves the set and the rows as they were; an
\* admitted one adds its normalized title to the set and one row to the rows
AdmissionStep ==
    item_step =>
        /\ norm_text(title) \in existing_norm =>
              (~ admits /\ rejected' = rejected)
        /\ ~ admits => (existing_norm' = existing_norm /\ rows' = rows)
        /\ admits =>
              /\ norm_text(title) \notin existing_norm
              /\ existing_norm' = existing_norm \cup {norm_text(title)}

\* after loading, the set changes on the steps that admit a row and on no other
SetGainStep ==
    pc # "load" => (existing_norm' # existing_norm <=> admitted' # admitted)

\* C22: the duplicate check comes before the topic check; a candidate that
\* either check rejects leaves the normalized-text set and the accumulated
\* rows unchanged; the set gains an element exactly when a row is admitted (so
\* a title one source's filter rejected can be admitted by a later source).
AdmissionFrame == [][AdmissionStep /\ SetGainStep]_vars

\* a title the keyword filter of one source rejected was admitted by a later
\* source, and a later occurrence of a title was turned away as a duplicate
AdmissionFrameWitness ==
    /\ \E r \in Range(admitted) :
          /\ norm_text(r.text) \in rejected
          /\ r.source = <<"W">>
    /\ pc = "item"
    /\ norm_text(title) \in existing_norm
    /\ norm_text(title) \in rejected


\* ---------------------------------------------------------------- C23
\* a keyword of src occurs in the title t up to letter case
holds_keyword_nocase(src, t) ==
    \E k \in Range(src.keywords) : is_substring(lower[k], lower[t])

\* C23: a keyword archive with keywords admits every candidate that is not a
\* duplicate and whose title holds one of the keywords up to letter case,
\* whatever the case the keyword is written in (keyword "Trade" admits
\* "New Trade Deal Signed").
KeywordCaseInsensitive ==
    [][(/\ item_step
        /\ source.type = "keyword_archive"
        /\ source.keywords # <<>>
        /\ norm_text(title) \notin existing_norm
        /\ holds_keyword_nocase(source, title)) => admits]_vars


\* ---------------------------------------------------------------- C24
\* the content safe_write_csv is about to move onto the destination
committing == to_csv_rows(w_df)

\* committing holds every row of every checkpoint written before it, and the
\* loaded dataset with every row admitted so far
holds_all_before ==
    /\ \A c \in ckpts : Range(c) \subseteq Range(committing)
    /\ Range(to_csv_rows(df0 \o admitted)) \subseteq Range(committing)

\* C24: every checkpoint written before the final de-duplication holds all
\* rows of every checkpoint written earlier in the run (the loaded dataset
\* and every row admitted so far, those of the earlier sources of the current
\* label included): a later checkpoint never drops a persisted row.
CheckpointMonotone ==
    (pc = "replace" /\ w_ret # "done") => holds_all_before

\* the same for the checkpoints written at the label boundaries only
BoundaryCheckpointMonotone ==
    (pc = "replace" /\ w_ret = "label_end") => holds_all_before


\* ---------------------------------------------------------------- C25
\* the final output has no more rows of a requested label than the larger of
\* target and the count of that label in the loaded dataset
within_quota ==
    \A l \in Range(labels) :
        count_label(out_file.rows, l) <= max(count_label(df0, l), target)

\* the entries of q are pairwise different
no_repeats(q) == \A i, j \in 1..Len(q) : i # j => q[i] # q[j]

\* C25: the run never over-fills a label: in the final output the rows of a
\* requested label number at most max(initial count, target), for every
\* --labels list (one that names a label twice included) and all page
\* outcomes.
NeverOverfill == pc = "done" => within_quota

\* the same for the --labels lists that name no label twice
NeverOverfillDistinctLabels ==
    (pc = "done" /\ no_repeats(labels)) => within_quota


\* ---------------------------------------------------------------- C26
\* the dataset before the final clean-up: the loaded rows, then the admitted
all_rows == df0 \o admitted

\* the position in q of the first row whose normalized text is n
first_index(q, n) ==
    CHOOSE i \in 1..Len(q) :
        /\ norm_text(q[i].text) = n
        /\ \A j \in 1..(i - 1) : norm_text(q[j].text) # n

\* kept is q with, of each group of rows of equal normalized text, the
\* earliest row only, in the order of q
keeps_earliest(kept, q) ==
    /\ norms(kept) = norms(q)
    /\ \A i \in 1..Len(kept) :
          kept[i] = q[first_index(q, norm_text(kept[i].text))]
    /\ \A i, j \in 1..Len(kept) :
          i < j => first_index(q, norm_text(kept[i].text))
                       < first_index(q, norm_text(kept[j].text))

\* the rows of q that are not in kept were rows of the loaded dataset:
\* every position of q after the loaded rows is the first of its group
removed_were_loaded(q) ==
    \A i \in (Len(df0) + 1)..Len(q) :
        first_index(q, norm_text(q[i].text)) = i

\* C26: the rows admitted in a run are pairwise distinct by normalized text
\* and distinct from every loaded row; so the final clean-up removes no row
\* admitted in the run: what it removes was in the input, and of each group of
\* equal normalized text it keeps the earliest row.
AdmittedSurviveCleanup ==
    /\ norm_unique(admitted)
    /\ norms(admitted) \cap norms(df0) = {}
    /\ pc = "done" =>
          /\ keeps_earliest(df, all_rows)
          /\ removed_were_loaded(all_rows)
          /\ Range(admitted) \subseteq Range(df)
          /\ out_file.rows = to_csv_rows(df)

\* a completed run whose input held two rows of equal normalized text, which
\* admitted rows and whose clean-up removed a row
AdmittedSurviveCleanupWitness ==
    /\ pc = "done"
    /\ ~ norm_unique(df0)
    /\ Len(admitted) >= 2
    /\ Len(df) < Len(all_rows)


\* ---------------------------------------------------------------- C27
\* a request is for a page above every page this invocation requested before,
\* and is at most the (max_pages - start_page + 1)-th of the invocation
SinglePassStep ==
    fetch_step =>
        /\ last_fetch'.page > last_fetch.page
        /\ fetches' = fetches + 1
        /\ fetches' <= source.max_pages - source.start_page + 1

\* an invocation that left its page loop requests nothing more: it returns
StoppedStep ==
    pc = "return" => (~ fetch_step /\ pc' \in {"source", "interrupted"})

\* the pages are requested once each in increasing order, at most
\* max_pages - start_page + 1 per invocation, and never after the stop
SinglePass == [][SinglePassStep /\ StoppedStep]_vars

\* every source is paginated by a mode collect_from_source knows
known_pagination == \A s \in Range(sources) : s.pagination \in PAGINATION_MODES

\* a run that has loaded its input and is not interrupted reaches the end of
\* main, after the final write, when no source has an unknown pagination mode
TerminatesWithKnownPagination ==
    (loaded /\ known_pagination) ~> (pc = "done")

\* C27: for every source configuration and all page outcomes (transport
\* failures included) each page of a source is requested at most once per
\* invocation, in increasing order, an invocation ends after at most
\* max_pages - start_page + 1 requests, a stopped source is not run again in
\* that invocation, and the run eventually performs its final write.
Termination == SinglePass /\ (loaded ~> (pc = "done"))
====
